---- MODULE Spec2Model ----
(***************************************************************************)
(* VaccineWeekly: the Friday 16:30 scheduler, the report workflow of       *)
(* src/App.tsx and the chunked WeCom delivery of                           *)
(* src/services/wecomService.ts.                                           *)
(*                                                                         *)
(* One action is one task of the browser's event loop: a click, an         *)
(* interval tick, a timeout, or the continuation of an async function      *)
(* after the promise it awaits settles.  React re-renders between tasks,   *)
(* so every handler sees the committed state.                              *)
(*                                                                         *)
(* A string is a sequence of characters (one-character TLA+ strings).      *)
(*                                                                         *)
(* WorkflowSpec  buttons, fields, generation, delivery and reset timers.   *)
(* WorkflowFairSpec  the same, with pending reset timers firing in the end. *)
(* SchedulerSpec the interval tick under arbitrary clock readings, with    *)
(*               the runs it competes with.                                *)
(* SplitSpec     the chunk list of sendToWeCom on enumerated contents.     *)
(*                                                                         *)
(* statusTrace, posted and lastEvent record what the last step did (its    *)
(* setStatus calls, the chunks it handed to fetch, the tick or click it    *)
(* was); they are written by every step and read by no handler.            *)
(***************************************************************************)
EXTENDS Integers, Sequences, FiniteSets, Bags, TLC

\* wecomService.ts:13
CHUNK_SIZE == 1024

\* ---------------------------------------------------------------- bounds
\* longest content enumerated character by character
MaxLen == 5
\* largest small chunk size tried on the enumerated contents
MaxM == 4
\* log entries kept before the model stops taking steps that append more
MaxLogs == 7
\* pending auto-revert timeouts
MaxTimers == 1
\* generateWeeklyReport calls in flight
MaxGens == 2
\* sendToWeCom calls in flight
MaxSends == 1
\* last week of 1970 whose Friday the clock can show (week 0 holds 2 January)
MaxWeek == 1

\* ---------------------------------------------------------------- strings
NL == "\n"

Alphabet == {"a", NL}

\* every string over Alphabet of length at most n
Strings(n) == UNION {[1..k -> Alphabet] : k \in 0..n}

\* the string of n characters c
Repeat(c, n) == [i \in 1..n |-> c]

\* positions of the separator in s
NLPositions(s) == {i \in 1..Len(s) : s[i] = NL}

\* the k-th smallest element of the set of positions P
NthPosition(P, k) == CHOOSE i \in P : Cardinality({j \in P : j < i}) = k - 1

\* content.split('\n'): the pieces between consecutive separators; a string
\* with n separators gives n + 1 pieces, the empty string gives one empty piece
SplitLines(s) ==
    LET P == NLPositions(s)
        n == Cardinality(P)
        cut(k) == IF k = 0 THEN 0
                  ELSE IF k = n + 1 THEN Len(s) + 1
                  ELSE NthPosition(P, k)
    IN  [k \in 1..(n + 1) |-> SubSeq(s, cut(k - 1) + 1, cut(k) - 1)]

RECURSIVE Join(_, _)
\* chunks.join(sep)
Join(ss, sep) ==
    IF Len(ss) = 0 THEN <<>>
    ELSE IF Len(ss) = 1 THEN ss[1]
    ELSE ss[1] \o <<sep>> \o Join(Tail(ss), sep)

\* ---------------------------------------------------------------- chunking
\* faulty variant: every string counts as truthy, the empty one included
Truthy_EmptyToo(s) == TRUE

\* `if (currentChunk)`: a JavaScript string is truthy iff it is not empty
Truthy(s) == s # <<>>

\* faulty variant: the size test without the separator joined in
Exceeds_NoSeparator(currentChunk, line, maxSize) ==
    Len(currentChunk) + Len(line) > maxSize

\* the test that closes the current chunk before a line is added
Exceeds(currentChunk, line, maxSize) ==
    Len(currentChunk) + Len(line) + 1 > maxSize

\* one iteration of the line loop on the pair <<chunks, currentChunk>>
ChunkStep(acc, line, maxSize) ==
    LET chunks == acc[1]
        currentChunk == acc[2]
    IN  IF Exceeds(currentChunk, line, maxSize)
        THEN <<IF Truthy(currentChunk) THEN Append(chunks, currentChunk) ELSE chunks,
               line>>
        ELSE <<chunks,
               IF Truthy(currentChunk) THEN currentChunk \o <<NL>> \o line ELSE line>>

RECURSIVE ChunkLoop(_, _, _, _)
\* `for (const line of lines)` from line number i on
ChunkLoop(lines, i, acc, maxSize) ==
    IF i > Len(lines) THEN acc
    ELSE ChunkLoop(lines, i + 1, ChunkStep(acc, lines[i], maxSize), maxSize)

\* the chunks sendToWeCom builds for content with chunk size maxSize
SplitIntoChunks(content, maxSize) ==
    LET acc == ChunkLoop(SplitLines(content), 1, <<<<>>, <<>>>>, maxSize)
    IN  IF Truthy(acc[2]) THEN Append(acc[1], acc[2]) ELSE acc[1]

\* ---------------------------------------------------------------- state
VARIABLES
    apiKey,               \* useState: the Gemini credential ("" when absent)
    autoMode,             \* useState: the scheduler may fire runs
    requireConfirmation,  \* useState: pause in REVIEWING before sending
    status,               \* useState: BotStatus
    logs,                 \* useState: LogEntry[] (message and type)
    lastReport,           \* useState: the generated content
    countDown,            \* useState: the countdown text
    lastRunDateRef,       \* useRef: dateKey of the last auto-fired run
    now,                  \* the clock reading of the last interval tick (minutes)
    gens,                 \* bag: generateWeeklyReport calls startGeneration awaits
    sends,                \* bag: sendToWeCom calls executeSend awaits
    timers,               \* pending setTimeout(() => setStatus(WAITING), delay)
    statusTrace,          \* the setStatus calls of the last step, in order
    posted,               \* the chunks handed to fetch by the last step
    lastEvent,            \* the last step, when it was a tick or a click
    splitContent,         \* chunking harness: the content
    splitMax,             \* chunking harness: the chunk size
    splitChunks           \* chunking harness: <<chunks>> once computed

appVars == <<apiKey, autoMode, requireConfirmation, status, logs, lastReport,
             countDown, lastRunDateRef, now, gens, sends, timers,
             statusTrace, posted, lastEvent>>

splitVars == <<splitContent, splitMax, splitChunks>>

vars == <<appVars, splitVars>>

BotStatus == {"WAITING", "SEARCHING", "GENERATING", "REVIEWING", "SENDING",
              "COMPLETED", "ERROR"}

\* ---------------------------------------------------------------- inputs
\* a short report: two lines, one chunk
ShortReport == <<"a", NL, "a">>

\* a long report: three lines of 600 characters, three chunks at CHUNK_SIZE
LongReport ==
    Repeat("a", 600) \o <<NL>> \o Repeat("a", 600) \o <<NL>> \o Repeat("a", 600)

\* two lines of 2000 characters, each longer than CHUNK_SIZE on its own
OversizedLines == Repeat("A", 2000) \o <<NL>> \o Repeat("B", 2000)

\* what generateWeeklyReport may resolve to
Reports == {<<>>, ShortReport, LongReport}

\* what the API key field may hold
ApiKeys == {"", "key"}

\* how a fetch of one chunk may end: HTTP 200 with errcode 0, a non-2xx status,
\* a rejected fetch (or unparsable body), a non-zero errcode
FetchOutcomes == {"ok", "http", "exception", "errcode"}

\* minutes of the day the clock is sampled at: 16:29, 16:30, 16:31, 17:30
TimesOfDay == {989, 990, 991, 1050}

\* clock readings, in minutes of local time since 1 January 1970 00:00: the
\* Fridays of weeks 0..MaxWeek at TimesOfDay, and the Thursday and the Saturday
\* around the first of them at 16:30
ClockReadings ==
    {(1 + 7 * w) * 1440 + m : w \in 0..MaxWeek, m \in TimesOfDay}
        \cup {0 * 1440 + 990, 2 * 1440 + 990}

\* ---------------------------------------------------------------- Date
\* whole days since 1 January 1970
DayNumber(t) == t \div 1440

\* Date.getDay(): 0 is Sunday; 1 January 1970 was a Thursday
getDay(t) == (DayNumber(t) + 4) % 7

\* Date.getHours()
getHours(t) == (t % 1440) \div 60

\* Date.getMinutes()
getMinutes(t) == t % 60

\* Date.toLocaleDateString('en-GB'), dd/mm/yyyy, as <<dd, mm, yyyy>>;
\* the readings of the model all lie in January 1970
toLocaleDateString(t) == <<DayNumber(t) + 1, 1, 1970>>

\* ---------------------------------------------------------------- helpers
\* the entry addLog appends (id and timestamp are not modelled); a message is
\* a tuple, its fixed text followed by the values interpolated into it
LogEntry(message, type) == [message |-> message, type |-> type]

\* the bag b with one more / one fewer copy of e
BagAdd(b, e) == b (+) SetToBag({e})
BagRemove(b, e) == b (-) SetToBag({e})

\* the sequence s without its element number j
RemoveAt(s, j) == SubSeq(s, 1, j - 1) \o SubSeq(s, j + 1, Len(s))

\* setTimeout(() => setStatus(BotStatus.WAITING), delay), scheduled in status src
Timer(src, delay) == [src |-> src, delay |-> delay]

\* lastEvent when the step was neither a tick nor a click
NoEvent == [kind |-> "none"]

\* lastEvent after a click on the button called name
ClickEvent(name) == [kind |-> name]

\* lastEvent after a tick: whether it called startGeneration, and whether the
\* clock read earlier than at the tick before
TickEvent(fired, backward) == [kind |-> "tick", fired |-> fired, backward |-> backward]

WithinBounds ==
    /\ Len(logs) <= MaxLogs
    /\ Len(timers) <= MaxTimers
    /\ BagCardinality(gens) <= MaxGens
    /\ BagCardinality(sends) <= MaxSends

AppInit ==
    /\ apiKey \in ApiKeys
    /\ autoMode = TRUE
    /\ requireConfirmation = TRUE
    /\ status = "WAITING"
    /\ logs = <<>>
    /\ lastReport = <<>>
    /\ countDown = <<"--:--:--">>
    /\ lastRunDateRef = <<>>
    /\ now = 0
    /\ gens = EmptyBag
    /\ sends = EmptyBag
    /\ timers = <<>>
    /\ statusTrace = <<>>
    /\ posted = <<>>
    /\ lastEvent = NoEvent

Init ==
    /\ AppInit
    /\ splitContent = <<>>
    /\ splitMax = CHUNK_SIZE
    /\ splitChunks = <<>>

\* ---------------------------------------------------------------- send phase
\* executeSend once sendToWeCom has resolved: the success logs, COMPLETED and
\* the 60 s reset.  l0 and trace0 are the logs and the setStatus calls so far.
SendSucceeded(l0, trace0) ==
    /\ logs' = l0 \o <<LogEntry(<<"Successfully pushed to Enterprise WeChat.">>, "success"),
                       LogEntry(<<"Workflow complete. Resetting for next cycle.">>, "success")>>
    /\ status' = "COMPLETED"
    /\ statusTrace' = Append(trace0, "COMPLETED")
    /\ timers' = Append(timers, Timer("COMPLETED", 60000))

\* faulty variant: a failed send that ends in ERROR, as a failed generation does
SendFailed_ToError(l0, error) ==
    /\ logs' = Append(l0, LogEntry(<<"Send Failed", error>>, "error"))
    /\ status' = "ERROR"
    /\ statusTrace' = <<"ERROR">>
    /\ UNCHANGED timers

\* executeSend's catch block (the alert is not modelled)
SendFailed(l0, error) ==
    /\ logs' = Append(l0, LogEntry(<<"Send Failed", error>>, "error"))
    /\ status' = "REVIEWING"
    /\ statusTrace' = <<"REVIEWING">>
    /\ UNCHANGED timers

\* executeSend(content) up to its first suspension: SENDING, the log line,
\* sendToWeCom's chunk list and the fetch of chunk 0.  With no chunk the send
\* loop is empty and sendToWeCom resolves at once.
executeSend(content, l0) ==
    LET chunks == SplitIntoChunks(content, CHUNK_SIZE)
        l1 == Append(l0, LogEntry(<<"Sending report to WeCom...">>, "info"))
    IN  IF chunks = <<>>
        THEN /\ SendSucceeded(l1, <<"SENDING">>)
             /\ posted' = <<>>
             /\ UNCHANGED sends
        ELSE /\ logs' = l1
             /\ status' = "SENDING"
             /\ statusTrace' = <<"SENDING">>
             /\ sends' = BagAdd(sends, [chunks |-> chunks, i |-> 0, awaiting |-> "fetch"])
             /\ posted' = <<chunks[1]>>
             /\ UNCHANGED timers

\* the message of the error a failed fetch of a chunk throws
FetchError(outcome) ==
    CASE outcome = "http" -> "HTTP status"
      [] outcome = "errcode" -> "WeCom API Error"
      [] OTHER -> "fetch rejected"

\* the Error a failed fetch of chunk s.i throws and the catch block of the
\* loop rethrows as it is: an Error object built from a message alone (the
\* chunk number and the chunk count go to console.error only)
ThrownError(s, outcome) == [message |-> FetchError(outcome)]

\* faulty variant: a failed chunk that is not the last does not end the loop
FetchSettles_GoesOnAfterFailure(s, outcome) ==
    /\ BagIn(s, sends)
    /\ s.awaiting = "fetch"
    /\ posted' = <<>>
    /\ lastEvent' = NoEvent
    /\ IF s.i < Len(s.chunks) - 1
       THEN /\ sends' = BagAdd(BagRemove(sends, s), [s EXCEPT !.awaiting = "delay"])
            /\ statusTrace' = <<>>
            /\ UNCHANGED <<logs, status, timers>>
       ELSE /\ sends' = BagRemove(sends, s)
            /\ IF outcome = "ok"
               THEN SendSucceeded(logs, <<>>)
               ELSE SendFailed(logs, ThrownError(s, outcome).message)
    /\ UNCHANGED <<apiKey, autoMode, requireConfirmation, lastReport, countDown,
                   lastRunDateRef, now, gens, splitVars>>
    /\ WithinBounds'

\* faulty variant: the loop goes on with the next chunk without the pause
FetchSettles_NoPause(s, outcome) ==
    /\ BagIn(s, sends)
    /\ s.awaiting = "fetch"
    /\ lastEvent' = NoEvent
    /\ IF outcome = "ok"
       THEN IF s.i < Len(s.chunks) - 1
            THEN /\ sends' = BagAdd(BagRemove(sends, s), [s EXCEPT !.i = s.i + 1])
                 /\ posted' = <<s.chunks[s.i + 2]>>
                 /\ statusTrace' = <<>>
                 /\ UNCHANGED <<logs, status, timers>>
            ELSE /\ sends' = BagRemove(sends, s)
                 /\ posted' = <<>>
                 /\ SendSucceeded(logs, <<>>)
       ELSE /\ sends' = BagRemove(sends, s)
            /\ posted' = <<>>
            /\ SendFailed(logs, ThrownError(s, outcome).message)
    /\ UNCHANGED <<apiKey, autoMode, requireConfirmation, lastReport, countDown,
                   lastRunDateRef, now, gens, splitVars>>
    /\ WithinBounds'

\* the fetch of chunk s.i settles
FetchSettles(s, outcome) ==
    /\ BagIn(s, sends)
    /\ s.awaiting = "fetch"
    /\ posted' = <<>>
    /\ lastEvent' = NoEvent
    /\ IF outcome = "ok"
       THEN IF s.i < Len(s.chunks) - 1
            THEN /\ sends' = BagAdd(BagRemove(sends, s), [s EXCEPT !.awaiting = "delay"])
                 /\ statusTrace' = <<>>
                 /\ UNCHANGED <<logs, status, timers>>
            ELSE /\ sends' = BagRemove(sends, s)
                 /\ SendSucceeded(logs, <<>>)
       ELSE /\ sends' = BagRemove(sends, s)
            /\ SendFailed(logs, ThrownError(s, outcome).message)
    /\ UNCHANGED <<apiKey, autoMode, requireConfirmation, lastReport, countDown,
                   lastRunDateRef, now, gens, splitVars>>
    /\ WithinBounds'

\* the 300 ms pause after chunk s.i ends: the loop goes on with chunk s.i + 1
DelayElapsed(s) ==
    /\ BagIn(s, sends)
    /\ s.awaiting = "delay"
    /\ sends' = BagAdd(BagRemove(sends, s), [s EXCEPT !.i = s.i + 1, !.awaiting = "fetch"])
    /\ posted' = <<s.chunks[s.i + 2]>>
    /\ statusTrace' = <<>>
    /\ lastEvent' = NoEvent
    /\ UNCHANGED <<apiKey, autoMode, requireConfirmation, status, logs, lastReport,
                   countDown, lastRunDateRef, now, gens, timers, splitVars>>

\* faulty variant: the guard also turns away a start from REVIEWING
Busy_AlsoReviewing(s) == s = "SEARCHING" \/ s = "GENERATING" \/ s = "REVIEWING"

\* ---------------------------------------------------------------- generation phase
\* the guard of startGeneration
Busy(s) == s = "SEARCHING" \/ s = "GENERATING"

\* faulty variant: the run starts without the test of the API key
startGeneration_NoKeyCheck(l0) ==
    IF Busy(status)
    THEN /\ logs' = l0
         /\ statusTrace' = <<>>
         /\ UNCHANGED <<status, gens, timers>>
    ELSE /\ logs' = l0 \o <<LogEntry(<<"Starting workflow: Scanning data sources...">>, "info"),
                            LogEntry(<<"Analysing clinical trials with Gemini 2.5...">>, "info")>>
         /\ status' = "GENERATING"
         /\ statusTrace' = <<"SEARCHING", "GENERATING">>
         /\ gens' = BagAdd(gens, [requireConfirmation |-> requireConfirmation])
         /\ UNCHANGED timers

\* startGeneration() up to its first suspension.  l0 is the logs so far.
startGeneration(l0) ==
    IF Busy(status)
    THEN /\ logs' = l0
         /\ statusTrace' = <<>>
         /\ UNCHANGED <<status, gens, timers>>
    ELSE IF apiKey = ""
    THEN /\ logs' = Append(l0, LogEntry(<<"API Key missing. Cannot execute workflow.">>, "error"))
         /\ status' = "ERROR"
         /\ statusTrace' = <<"ERROR">>
         /\ timers' = Append(timers, Timer("ERROR", 5000))
         /\ UNCHANGED gens
    ELSE /\ logs' = l0 \o <<LogEntry(<<"Starting workflow: Scanning data sources...">>, "info"),
                            LogEntry(<<"Analysing clinical trials with Gemini 2.5...">>, "info")>>
         /\ status' = "GENERATING"
         /\ statusTrace' = <<"SEARCHING", "GENERATING">>
         /\ gens' = BagAdd(gens, [requireConfirmation |-> requireConfirmation])
         /\ UNCHANGED timers

\* faulty variant: the continuation reads the checkbox as it is when the
\* call settles
NeedsReview_ReadsCurrent(g) == requireConfirmation

\* faulty variant: the review gate is skipped
NeedsReview_Never(g) == FALSE

\* `if (requireConfirmation)` in the continuation of the call g: the value
\* startGeneration closed over when it was called
NeedsReview(g) == g.requireConfirmation

\* generateWeeklyReport resolves with reportContent for the call g
GenerationSucceeds(g, reportContent) ==
    LET l1 == Append(logs, LogEntry(<<"Report generated. Preparing for review.">>, "success"))
    IN  /\ BagIn(g, gens)
        /\ gens' = BagRemove(gens, g)
        /\ lastReport' = reportContent
        /\ lastEvent' = NoEvent
        /\ IF NeedsReview(g)
           THEN /\ status' = "REVIEWING"
                /\ statusTrace' = <<"REVIEWING">>
                /\ logs' = Append(l1, LogEntry(<<"Paused for manual review. Please approve to send.">>, "warning"))
                /\ posted' = <<>>
                /\ UNCHANGED <<sends, timers>>
           ELSE executeSend(reportContent, l1)
        /\ UNCHANGED <<apiKey, autoMode, requireConfirmation, countDown,
                       lastRunDateRef, now, splitVars>>
        /\ WithinBounds'

\* faulty variant: a failed generation clears the trigger record, so that the
\* scheduler may fire again the same day
GenerationFails_ReleasesDay(g) ==
    /\ BagIn(g, gens)
    /\ gens' = BagRemove(gens, g)
    /\ status' = "ERROR"
    /\ statusTrace' = <<"ERROR">>
    /\ logs' = Append(logs, LogEntry(<<"Generation Error">>, "error"))
    /\ timers' = Append(timers, Timer("ERROR", 60000))
    /\ posted' = <<>>
    /\ lastEvent' = NoEvent
    /\ lastRunDateRef' = <<>>
    /\ UNCHANGED <<apiKey, autoMode, requireConfirmation, lastReport, countDown,
                   now, sends, splitVars>>
    /\ WithinBounds'

\* generateWeeklyReport rejects for the call g
GenerationFails(g) ==
    /\ BagIn(g, gens)
    /\ gens' = BagRemove(gens, g)
    /\ status' = "ERROR"
    /\ statusTrace' = <<"ERROR">>
    /\ logs' = Append(logs, LogEntry(<<"Generation Error">>, "error"))
    /\ timers' = Append(timers, Timer("ERROR", 60000))
    /\ posted' = <<>>
    /\ lastEvent' = NoEvent
    /\ UNCHANGED <<apiKey, autoMode, requireConfirmation, lastReport, countDown,
                   lastRunDateRef, now, sends, splitVars>>
    /\ WithinBounds'

\* ---------------------------------------------------------------- timeouts
\* timer number j may expire: no timer set before it with a delay at most as
\* long is still pending
MayExpire(j) == \A k \in 1..(j - 1) : timers[k].delay > timers[j].delay

\* faulty variant: a reset callback that leaves the status as it is
ResetCallback_KeepsStatus(t) == status

\* the callback of a reset timer: () => setStatus(BotStatus.WAITING)
ResetCallback(t) == "WAITING"

\* pending timer number j fires
TimerFires(j) ==
    /\ j \in 1..Len(timers)
    /\ MayExpire(j)
    /\ status' = ResetCallback(timers[j])
    /\ statusTrace' = <<status'>>
    /\ timers' = RemoveAt(timers, j)
    /\ posted' = <<>>
    /\ lastEvent' = NoEvent
    /\ UNCHANGED <<apiKey, autoMode, requireConfirmation, logs, lastReport, countDown,
                   lastRunDateRef, now, gens, sends, splitVars>>

\* ---------------------------------------------------------------- scheduler
isFriday(t) == getDay(t) = 5

\* faulty variant: a window that stays open from 16:30 to the end of the hour
isTimeWindow_RestOfHour(t) == getHours(t) = 16 /\ getMinutes(t) >= 30

isTimeWindow(t) == getHours(t) = 16 /\ getMinutes(t) = 30

\* the countdown text of the tick at reading t, a tuple like a log message
nextRunText(t) ==
    LET hour == getHours(t)
        minute == getMinutes(t)
        diffMins == (16 * 60 + 30) - (hour * 60 + minute)
    IN  IF ~isFriday(t) THEN <<"Next run: Friday 16:30">>
        ELSE IF hour < 16 \/ (hour = 16 /\ minute < 30)
             THEN IF diffMins < 60 THEN <<"Starts in mins", diffMins>> ELSE <<"Today at 16:30">>
        ELSE IF hour > 16 \/ (hour = 16 /\ minute > 30)
             THEN <<"Next run: Next Friday">>
        ELSE <<"Running Scheduled Task...">>

\* faulty variant: the trigger condition without the test of lastRunDateRef
ShouldTrigger_IgnoresRunDate(t) ==
    /\ autoMode
    /\ getDay(t) = 5
    /\ getHours(t) = 16 /\ getMinutes(t) = 30
    /\ status = "WAITING"

\* the trigger condition of the tick at reading t
ShouldTrigger(t) ==
    /\ autoMode
    /\ isFriday(t)
    /\ isTimeWindow(t)
    /\ lastRunDateRef # toLocaleDateString(t)
    /\ status = "WAITING"

\* faulty variant: a firing tick that leaves lastRunDateRef as it was
NewRunDate_NotStored(dateKey) == lastRunDateRef

\* what a firing tick stores in lastRunDateRef.current
NewRunDate(dateKey) == dateKey

\* the setInterval callback, run when the clock reads t
Tick(t) ==
    LET dateKey == toLocaleDateString(t)
    IN  /\ now' = t
        /\ countDown' = nextRunText(t)
        /\ posted' = <<>>
        /\ IF ShouldTrigger(t)
           THEN /\ lastRunDateRef' = NewRunDate(dateKey)
                /\ lastEvent' = TickEvent(TRUE, t < now)
                /\ startGeneration(Append(logs,
                       LogEntry(<<"Auto-Scheduler triggered for", dateKey>>, "warning")))
           ELSE /\ lastEvent' = TickEvent(FALSE, t < now)
                /\ statusTrace' = <<>>
                /\ UNCHANGED <<lastRunDateRef, status, logs, gens, timers>>
        /\ UNCHANGED <<apiKey, autoMode, requireConfirmation, lastReport, sends, splitVars>>
        /\ WithinBounds'

\* ---------------------------------------------------------------- buttons and fields
\* the Run Now button is rendered outside REVIEWING and enabled in these states
RunNowEnabled(s) == s # "REVIEWING" /\ (s = "WAITING" \/ s = "COMPLETED" \/ s = "ERROR")

\* faulty variant: the review buttons are rendered in every status
ReviewButtons_Always(s) == TRUE

\* Approve & Send and Regenerate are rendered in REVIEWING only
ReviewButtons(s) == s = "REVIEWING"

\* a click that reaches no handler
NoHandler == UNCHANGED <<status, logs, gens, sends, timers>> /\ statusTrace' = <<>>

\* a click on Run Now (Manual)
RunNowClick ==
    /\ IF RunNowEnabled(status)
       THEN startGeneration(logs) /\ UNCHANGED sends
       ELSE NoHandler
    /\ posted' = <<>>
    /\ lastEvent' = ClickEvent("runNow")
    /\ UNCHANGED <<apiKey, autoMode, requireConfirmation, lastReport, countDown,
                   lastRunDateRef, now, splitVars>>
    /\ WithinBounds'

\* a click on Regenerate
RegenerateClick ==
    /\ IF ReviewButtons(status)
       THEN startGeneration(logs) /\ UNCHANGED sends
       ELSE NoHandler
    /\ posted' = <<>>
    /\ lastEvent' = ClickEvent("regenerate")
    /\ UNCHANGED <<apiKey, autoMode, requireConfirmation, lastReport, countDown,
                   lastRunDateRef, now, splitVars>>
    /\ WithinBounds'

\* a click on Approve & Send: executeSend(lastReport)
ApproveClick ==
    /\ IF ReviewButtons(status)
       THEN executeSend(lastReport, logs)
       ELSE NoHandler /\ posted' = <<>>
    /\ lastEvent' = ClickEvent("approve")
    /\ UNCHANGED <<apiKey, autoMode, requireConfirmation, lastReport, countDown,
                   lastRunDateRef, now, gens, splitVars>>
    /\ WithinBounds'

\* a step that changes configuration only
ConfigOnly ==
    /\ statusTrace' = <<>>
    /\ posted' = <<>>
    /\ lastEvent' = NoEvent
    /\ UNCHANGED <<status, logs, lastReport, countDown, lastRunDateRef, now, gens,
                   sends, timers, splitVars>>

\* handleApiKeyChange
SetApiKey(k) ==
    /\ apiKey' = k
    /\ UNCHANGED <<autoMode, requireConfirmation>>
    /\ ConfigOnly

\* the Disable Timer / Enable Timer button, rendered outside REVIEWING
ToggleAutoMode ==
    /\ ~ReviewButtons(status)
    /\ autoMode' = ~autoMode
    /\ UNCHANGED <<apiKey, requireConfirmation>>
    /\ ConfigOnly

\* the confirmToggle checkbox
ToggleConfirmation ==
    /\ requireConfirmation' = ~requireConfirmation
    /\ UNCHANGED <<apiKey, autoMode>>
    /\ ConfigOnly

\* ---------------------------------------------------------------- the program
\* buttons, fields, generation, delivery and reset timers
WorkflowNext ==
    \/ RunNowClick
    \/ RegenerateClick
    \/ ApproveClick
    \/ \E k \in ApiKeys : SetApiKey(k)
    \/ ToggleConfirmation
    \/ \E g \in BagToSet(gens), r \in Reports : GenerationSucceeds(g, r)
    \/ \E g \in BagToSet(gens) : GenerationFails(g)
    \/ \E s \in BagToSet(sends), o \in FetchOutcomes : FetchSettles(s, o)
    \/ \E s \in BagToSet(sends) : DelayElapsed(s)
    \/ \E j \in 1..Len(timers) : TimerFires(j)

WorkflowSpec == Init /\ [][WorkflowNext]_vars

\* WorkflowSpec with the browser's guarantee that a timeout whose delay has
\* elapsed runs its callback: some pending reset timer fires in the end
WorkflowFairSpec ==
    WorkflowSpec /\ WF_vars(\E j \in 1..Len(timers) : TimerFires(j))

\* the interval tick under any sequence of clock readings, with the runs it
\* starts and the manual runs that compete with it
SchedulerNext ==
    \/ \E t \in ClockReadings : Tick(t)
    \/ ToggleAutoMode
    \/ RunNowClick
    \/ \E g \in BagToSet(gens) : GenerationSucceeds(g, ShortReport)
    \/ \E g \in BagToSet(gens) : GenerationFails(g)
    \/ \E j \in 1..Len(timers) : TimerFires(j)

SchedulerSpec == Init /\ [][SchedulerNext]_vars

\* ---------------------------------------------------------------- chunking harness
SplitInit ==
    /\ AppInit
    /\ splitChunks = <<>>
    /\ \E c \in Strings(MaxLen) \cup {OversizedLines}, m \in (1..MaxM) \cup {CHUNK_SIZE} :
          /\ splitContent = c
          /\ splitMax = m

ApplySplit ==
    /\ splitChunks = <<>>
    /\ splitChunks' = <<SplitIntoChunks(splitContent, splitMax)>>
    /\ UNCHANGED <<splitContent, splitMax, appVars>>

SplitNext == ApplySplit

SplitSpec == SplitInit /\ [][SplitNext]_vars

\* ================================================================ properties
\* the dateKeys of the "Auto-Scheduler triggered" log entries, oldest first
FiredKeys ==
    LET fired == SelectSeq(logs, LAMBDA e : e.message[1] = "Auto-Scheduler triggered for")
    IN  [i \in 1..Len(fired) |-> fired[i].message[2]]

\* C1: at most one workflow run is active: there is never more than one
\* call to the generation collaborator in flight.
C1_AtMostOneGenerationInFlight == BagCardinality(gens) <= 1

\* C2: a reset timer that fires when the status is no longer the state that
\* scheduled it leaves the status unchanged.
C2_TimerChecksItsSourceState ==
    [][\A j \in 1..Len(timers) :
          (timers' = RemoveAt(timers, j) /\ status # timers[j].src)
              => status' = status]_vars

\* the last step was a tick
Ticked == lastEvent.kind = "tick"

\* the four conditions of the firing rule, for a tick that reads the clock at t
FiringRule(t) ==
    /\ autoMode
    /\ getDay(t) = 5 /\ getHours(t) = 16 /\ getMinutes(t) = 30
    /\ lastRunDateRef # toLocaleDateString(t)
    /\ status = "WAITING"

\* C3: a tick on the day the trigger record already names never invokes
\* startGeneration, whatever the status, the mode and the time of day.
C3_NoFireOnRecordedDay ==
    [][(Ticked' /\ lastRunDateRef = toLocaleDateString(now'))
          => (~lastEvent'.fired /\ status' = status /\ logs' = logs /\ gens' = gens)]_vars

\* C3 witness: the run fired on this Friday has failed and the status is back
\* to WAITING inside the window, auto mode is on, and the tick did not fire.
C3_Witness ==
    /\ Ticked /\ ~lastEvent.fired
    /\ autoMode /\ isFriday(now) /\ isTimeWindow(now) /\ status = "WAITING"
    /\ lastRunDateRef = toLocaleDateString(now)
    /\ Len(FiredKeys) = 1

\* C4 as stated: no day is auto-fired twice, under any sequence of clock readings.
C4_NoDayFiredTwice ==
    \A i, j \in 1..Len(FiredKeys) : i # j => FiredKeys[i] # FiredKeys[j]

\* C4 as amended: no day is auto-fired twice in a row; a second fire for a day
\* happens only after a fire for another day.
C4_NoDayFiredTwiceInARow ==
    \A i \in 1..(Len(FiredKeys) - 1) : FiredKeys[i] # FiredKeys[i + 1]

\* C4 witness: the clock went back into the window of the Friday that was fired
\* last, with auto mode on and status WAITING, and the tick did not fire.
C4_Witness ==
    /\ Ticked /\ lastEvent.backward /\ ~lastEvent.fired
    /\ autoMode /\ isFriday(now) /\ isTimeWindow(now) /\ status = "WAITING"
    /\ Len(FiredKeys) >= 1
    /\ FiredKeys[Len(FiredKeys)] = toLocaleDateString(now)

\* C5: a tick invokes startGeneration iff auto mode is on, it is Friday 16:30,
\* the trigger record differs from today and the status is WAITING; a firing
\* tick has stored today in the trigger record and logged the trigger when the
\* run starts, and any other tick changes nothing but the countdown.
C5_FiringRule ==
    [][Ticked' =>
          /\ lastEvent'.fired <=> FiringRule(now')
          /\ lastEvent'.fired =>
                /\ lastRunDateRef' = toLocaleDateString(now')
                /\ logs'[Len(logs) + 1] =
                      LogEntry(<<"Auto-Scheduler triggered for", toLocaleDateString(now')>>,
                               "warning")
                /\ statusTrace' \in {<<"SEARCHING", "GENERATING">>, <<"ERROR">>}
          /\ ~lastEvent'.fired =>
                /\ UNCHANGED <<lastRunDateRef, status, logs, gens, timers>>
                /\ statusTrace' = <<>>]_vars

\* C5 witness: a tick has fired a run that is now generating.
C5_Witness ==
    /\ Ticked /\ lastEvent.fired
    /\ status = "GENERATING"
    /\ lastRunDateRef = toLocaleDateString(now)
    /\ BagCardinality(gens) = 1

\* the step sets SENDING first: executeSend has been entered
DeliveryStarted == statusTrace' # <<>> /\ statusTrace'[1] = "SENDING"

\* the step is the continuation of a generation call that closed over
\* requireConfirmation = FALSE
AutoSendContinuation ==
    \E g \in BagToSet(gens) : ~g.requireConfirmation /\ gens' = BagRemove(gens, g)

\* the step resumes a delivery after its 300 ms pause
DeliveryResumed ==
    \E s \in BagToSet(sends) :
        /\ s.awaiting = "delay"
        /\ sends' = BagAdd(BagRemove(sends, s),
                           [s EXCEPT !.i = s.i + 1, !.awaiting = "fetch"])

\* C6: with requireConfirmation set when the run starts, a run sets SEARCHING
\* then GENERATING when it starts and REVIEWING when generation succeeds, the
\* report is stored, and nothing is posted to the sink by these steps; a
\* delivery is entered only by a click on Approve & Send in REVIEWING (or by a
\* run started without requireConfirmation), and every chunk posted belongs to
\* a delivery entered that way.
C6_ReviewBeforeDelivery ==
    [][/\ BagCardinality(gens') > BagCardinality(gens) =>
             /\ statusTrace' = <<"SEARCHING", "GENERATING">>
             /\ posted' = <<>> /\ sends' = sends
       /\ \A g \in BagToSet(gens), r \in Reports :
             (g.requireConfirmation /\ GenerationSucceeds(g, r)) =>
                 /\ statusTrace' = <<"REVIEWING">> /\ status' = "REVIEWING"
                 /\ lastReport' = r
                 /\ posted' = <<>> /\ sends' = sends
       /\ DeliveryStarted =>
             \/ lastEvent'.kind = "approve" /\ status = "REVIEWING"
             \/ AutoSendContinuation
       /\ posted' # <<>> => DeliveryStarted \/ DeliveryResumed]_vars

\* C6 witness: the long report is stored, the status is REVIEWING, and no
\* delivery has been started.
C6_Witness ==
    /\ status = "REVIEWING" /\ statusTrace = <<"REVIEWING">>
    /\ lastReport = LongReport
    /\ posted = <<>> /\ sends = EmptyBag /\ gens = EmptyBag
    /\ Len(logs) = 4
    /\ logs[4].message = <<"Paused for manual review. Please approve to send.">>

\* C7: a failed chunk ends the delivery in REVIEWING with the stored report
\* unchanged, one error log entry, nothing posted and no reset timer; when it is
\* the only delivery and the status is SENDING, its chunks are those of the
\* stored report.  A click on Approve & Send in REVIEWING then posts chunk 0 of
\* the stored report and starts the delivery at index 0.
C7_DeliveryFailureBackToReview ==
    [][/\ \A s \in BagToSet(sends), o \in FetchOutcomes \ {"ok"} :
             FetchSettles(s, o) =>
                 /\ status' = "REVIEWING" /\ statusTrace' = <<"REVIEWING">>
                 /\ lastReport' = lastReport
                 /\ Len(logs') = Len(logs) + 1
                 /\ SubSeq(logs', 1, Len(logs)) = logs
                 /\ logs'[Len(logs')].type = "error"
                 /\ posted' = <<>> /\ timers' = timers
                 /\ sends' = BagRemove(sends, s)
                 /\ (status = "SENDING" /\ BagCardinality(sends) = 1) =>
                        s.chunks = SplitIntoChunks(lastReport, CHUNK_SIZE)
       /\ (lastEvent'.kind = "approve" /\ status = "REVIEWING") =>
             LET chunks == SplitIntoChunks(lastReport, CHUNK_SIZE)
             IN  /\ lastReport' = lastReport
                 /\ IF chunks = <<>>
                    THEN posted' = <<>> /\ sends' = sends
                    ELSE /\ posted' = <<chunks[1]>>
                         /\ sends' = BagAdd(sends, [chunks |-> chunks, i |-> 0,
                                                    awaiting |-> "fetch"])]_vars

\* C7 witness: the delivery of the long report has failed, and the click on
\* Approve & Send that followed has posted its chunk 0 again.
C7_Witness ==
    /\ lastEvent.kind = "approve" /\ status = "SENDING"
    /\ lastReport = LongReport
    /\ posted = <<SplitIntoChunks(LongReport, CHUNK_SIZE)[1]>>
    /\ Len(logs) >= 2
    /\ logs[Len(logs) - 1].message[1] = "Send Failed"
    /\ logs[Len(logs) - 1].type = "error"

\* C8: a click on Approve & Send outside REVIEWING changes nothing: no status
\* change, no log entry, no delivery.
C8_ApproveOutsideReviewIsNoOp ==
    [][(lastEvent'.kind = "approve" /\ status # "REVIEWING") =>
          /\ status' = status /\ statusTrace' = <<>>
          /\ logs' = logs
          /\ posted' = <<>> /\ sends' = sends
          /\ UNCHANGED <<lastReport, timers, gens>>]_vars

\* C8 witness: a second click on Approve & Send while the first delivery is in
\* flight.
C8_Witness ==
    /\ lastEvent.kind = "approve"
    /\ status = "SENDING" /\ statusTrace = <<>>
    /\ BagCardinality(sends) = 1

\* the step is an accepted start: startGeneration went past its guard
StartAccepted ==
    /\ statusTrace' \in {<<"SEARCHING", "GENERATING">>, <<"ERROR">>}
    /\ apiKey # "" =>
          /\ gens' = BagAdd(gens, [requireConfirmation |-> requireConfirmation])
          /\ status' = "GENERATING"

\* C9: a click that asks for a run while the status is SEARCHING or GENERATING
\* starts no generation call and changes neither the status nor the log; Run
\* Now is accepted from WAITING, COMPLETED and ERROR, Regenerate from REVIEWING.
C9_StartGuard ==
    [][lastEvent'.kind \in {"runNow", "regenerate"} =>
          /\ status \in {"SEARCHING", "GENERATING"} =>
                /\ status' = status /\ statusTrace' = <<>>
                /\ logs' = logs /\ gens' = gens
          /\ (lastEvent'.kind = "runNow" /\ status \in {"WAITING", "COMPLETED", "ERROR"})
                => StartAccepted
          /\ (lastEvent'.kind = "regenerate" /\ status = "REVIEWING")
                => StartAccepted]_vars

\* C9 witness: Run Now clicked while the one generation call is in flight.
C9_Witness ==
    /\ lastEvent.kind = "runNow"
    /\ status = "GENERATING" /\ statusTrace = <<>>
    /\ BagCardinality(gens) = 1

\* C10: joining the chunks with newlines gives back the content.
C10_LosslessSplit ==
    splitChunks # <<>> => Join(splitChunks[1], NL) = splitContent

RECURSIVE WholeLineRuns(_, _, _, _)
\* the chunks from number k on are runs of consecutive whole lines, taken in
\* order from the lines from number i on
WholeLineRuns(lines, i, chunks, k) ==
    IF k > Len(chunks) THEN TRUE
    ELSE LET run == SplitLines(chunks[k])
         IN  \E a \in i..(Len(lines) - Len(run) + 1) :
                 /\ SubSeq(lines, a, a + Len(run) - 1) = run
                 /\ WholeLineRuns(lines, a + Len(run), chunks, k + 1)

\* C11: every chunk is at most splitMax long unless it is a single line that is
\* itself longer than splitMax, and every chunk is a run of whole lines of the
\* content: no line is split across two chunks.
C11_ChunkSizeAndWholeLines ==
    splitChunks # <<>> =>
        LET chunks == splitChunks[1]
        IN  /\ \A k \in 1..Len(chunks) :
                  \/ Len(chunks[k]) <= splitMax
                  \/ NLPositions(chunks[k]) = {}
            /\ WholeLineRuns(SplitLines(splitContent), 1, chunks, 1)

\* C11 witness: two lines of 2000 characters at chunk size 1024 give two
\* chunks, each one oversized line.
C11_Witness ==
    /\ splitContent = OversizedLines /\ splitMax = CHUNK_SIZE
    /\ splitChunks = <<<<Repeat("A", 2000), Repeat("B", 2000)>>>>

\* the delivery s has just been entered: its chunk 0 is with fetch
DeliveryEntered(s) ==
    /\ s.i = 0 /\ s.awaiting = "fetch"
    /\ sends' = BagAdd(sends, s)
    /\ posted' = <<s.chunks[1]>>

\* the delivery s, paused after its chunk s.i, goes on with chunk s.i + 1
DeliveryGoesOn(s) ==
    /\ s.awaiting = "delay"
    /\ sends' = BagAdd(BagRemove(sends, s), [s EXCEPT !.i = s.i + 1, !.awaiting = "fetch"])
    /\ posted' = <<s.chunks[s.i + 2]>>

\* C12: a delivery hands its chunks to fetch one at a time and in index order:
\* chunk 0 when it is entered, chunk i + 1 only by the step that follows the
\* pause after chunk i, and that pause is reached only when the fetch of
\* chunk i succeeded.  A chunk that fails (HTTP status, rejected fetch or
\* non-zero errcode) ends the delivery: it posts nothing and the call is gone,
\* so no chunk after it is ever posted.
C12_SequentialFailFast ==
    [][/\ posted' # <<>> =>
             \/ \E s \in BagToSet(sends') : DeliveryEntered(s)
             \/ \E s \in BagToSet(sends) : DeliveryGoesOn(s)
       /\ \A s \in BagToSet(sends), o \in FetchOutcomes :
             FetchSettles(s, o) =>
                 /\ posted' = <<>>
                 /\ IF o = "ok" /\ s.i + 1 < Len(s.chunks)
                    THEN sends' = BagAdd(BagRemove(sends, s),
                                         [s EXCEPT !.awaiting = "delay"])
                    ELSE sends' = BagRemove(sends, s)
                 /\ o # "ok" => status' = "REVIEWING"
       /\ \A s \in BagToSet(sends') :
             /\ s.i \in 0..(Len(s.chunks) - 1)
             /\ s.awaiting = "delay" => s.i + 1 < Len(s.chunks)
             /\ (s.awaiting = "delay" /\ ~BagIn(s, sends)) =>
                    /\ BagIn([s EXCEPT !.awaiting = "fetch"], sends)
                    /\ status' = status /\ logs' = logs]_vars

\* C12 witness: a delivery of the long report has failed, and the delivery
\* approved after it has posted chunk 1 once its chunk 0 succeeded.
C12_Witness ==
    /\ \E k \in 1..Len(logs) : logs[k].message[1] = "Send Failed"
    /\ \E s \in BagToSet(sends) :
          /\ s.chunks = SplitIntoChunks(LongReport, CHUNK_SIZE)
          /\ s.i = 1 /\ s.awaiting = "fetch"
          /\ posted = <<s.chunks[2]>>

\* the error object carries the chunk index and the chunk count in fields of
\* their own, next to its message
CarriesIndexAndTotal(error, index, total) ==
    /\ "message" \in DOMAIN error
    /\ \E f, g \in DOMAIN error \ {"message"} :
          f # g /\ error[f] = index /\ error[g] = total

\* C13: when the fetch of chunk s.i fails, the error executeSend catches
\* carries s.i and the number of chunks together with the message it logs.
C13_ErrorCarriesIndexAndTotal ==
    [][\A s \in BagToSet(sends), o \in FetchOutcomes \ {"ok"} :
          FetchSettles(s, o) =>
              /\ logs'[Len(logs')].message = <<"Send Failed", ThrownError(s, o).message>>
              /\ CarriesIndexAndTotal(ThrownError(s, o), s.i, Len(s.chunks))]_vars

\* the delivery s as it is during the 300 ms pause after its chunk s.i
Pausing(s) == [s EXCEPT !.awaiting = "delay"]

\* the number of deliveries in their 300 ms pause
Pauses(b) ==
    LET paused == {s \in BagToSet(b) : s.awaiting = "delay"}
    IN  IF paused = {} THEN 0 ELSE BagCardinality([s \in paused |-> CopiesIn(s, b)])

\* C14: a delivery pauses after the fetch of a chunk exactly when that fetch
\* succeeded and the chunk is not the last: never after the last chunk, never
\* after a failed one.  No other step starts a pause, and the step that ends a
\* pause posts the next chunk.
C14_PauseBetweenSuccessfulChunks ==
    [][/\ \A s \in BagToSet(sends), o \in FetchOutcomes :
             FetchSettles(s, o) =>
                 IF o = "ok" /\ s.i # Len(s.chunks) - 1
                 THEN /\ CopiesIn(Pausing(s), sends') = CopiesIn(Pausing(s), sends) + 1
                      /\ Pauses(sends') = Pauses(sends) + 1
                 ELSE Pauses(sends') = Pauses(sends)
       /\ Pauses(sends') > Pauses(sends) =>
             \E s \in BagToSet(sends) :
                 /\ s.awaiting = "fetch" /\ s.i # Len(s.chunks) - 1
                 /\ sends' = BagAdd(BagRemove(sends, s), Pausing(s))
                 /\ status' = status /\ logs' = logs /\ posted' = <<>>
       /\ Pauses(sends') < Pauses(sends) =>
             \E s \in BagToSet(sends) : DeliveryGoesOn(s)]_vars

\* C14 witness: the delivery of the long report pauses after its chunk 1, the
\* second of three.
C14_Witness ==
    /\ status = "SENDING"
    /\ \E s \in BagToSet(sends) :
          /\ Len(s.chunks) = 3
          /\ s.i = 1 /\ s.awaiting = "delay"
    /\ posted = <<>>

\* the step calls startGeneration from a status in which the call is accepted:
\* Run Now in WAITING, COMPLETED or ERROR, Regenerate in REVIEWING, a firing tick
StartInvoked ==
    \/ lastEvent'.kind = "runNow" /\ status \in {"WAITING", "COMPLETED", "ERROR"}
    \/ lastEvent'.kind = "regenerate" /\ status = "REVIEWING"
    \/ lastEvent'.kind = "tick" /\ lastEvent'.fired

\* C15: a start with an empty API key sets ERROR and nothing else (never
\* SEARCHING or GENERATING), appends one error log entry (after the trigger
\* entry when a tick started it), starts no generation call and no delivery,
\* and leaves the stored report as it is.
C15_MissingKeyFailsAtOnce ==
    [][(StartInvoked /\ apiKey = "") =>
          /\ status' = "ERROR" /\ statusTrace' = <<"ERROR">>
          /\ logs' = Append(IF lastEvent'.kind = "tick"
                            THEN Append(logs, LogEntry(<<"Auto-Scheduler triggered for",
                                                         toLocaleDateString(now')>>, "warning"))
                            ELSE logs,
                            LogEntry(<<"API Key missing. Cannot execute workflow.">>, "error"))
          /\ gens' = gens /\ sends' = sends /\ posted' = <<>>
          /\ lastReport' = lastReport]_vars

\* C15 witness: Regenerate clicked in REVIEWING after the key was cleared; the
\* status is ERROR, no call is in flight and the long report is still stored.
C15_Witness ==
    /\ lastEvent.kind = "regenerate" /\ apiKey = ""
    /\ status = "ERROR" /\ statusTrace = <<"ERROR">>
    /\ gens = EmptyBag /\ sends = EmptyBag
    /\ lastReport = LongReport
    /\ logs[Len(logs)].type = "error"

\* C16: whenever the status is ERROR or COMPLETED it is WAITING again later,
\* whatever else happens in between, provided pending timeouts fire.
C16_FailedAndCompletedRevert ==
    (status \in {"ERROR", "COMPLETED"}) ~> (status = "WAITING")

\* C16 witness: the reset timer of a completed delivery has fired and the
\* status is WAITING again.
C16_Witness ==
    /\ status = "WAITING" /\ statusTrace = <<"WAITING">>
    /\ timers = <<>>
    /\ Len(logs) >= 1
    /\ logs[Len(logs)].message = <<"Workflow complete. Resetting for next cycle.">>

\* C17: a click on Regenerate in REVIEWING that starts a run (the key is
\* present) leaves no report stored: the report generated before is dropped by
\* that step.
C17_RegenerateDiscardsReport ==
    [][(lastEvent'.kind = "regenerate" /\ status = "REVIEWING" /\ apiKey # "") =>
          /\ statusTrace' = <<"SEARCHING", "GENERATING">>
          /\ lastReport' = <<>>]_vars

\* C18: a run closes over requireConfirmation as it is when startGeneration is
\* called; when its generation succeeds, that value alone decides between
\* REVIEWING and the delivery, whatever the checkbox shows by then; and a
\* click on the checkbox starts, ends and redirects no run.
C18_ConfirmationSnapshot ==
    [][/\ BagCardinality(gens') > BagCardinality(gens) =>
             gens' = BagAdd(gens, [requireConfirmation |-> requireConfirmation])
       /\ \A g \in BagToSet(gens), r \in Reports :
             GenerationSucceeds(g, r) =>
                 IF g.requireConfirmation
                 THEN /\ status' = "REVIEWING" /\ statusTrace' = <<"REVIEWING">>
                      /\ sends' = sends /\ posted' = <<>>
                 ELSE /\ statusTrace'[1] = "SENDING"
                      /\ status' \in {"SENDING", "COMPLETED"}
                      /\ posted' = IF SplitIntoChunks(r, CHUNK_SIZE) = <<>> THEN <<>>
                                    ELSE <<SplitIntoChunks(r, CHUNK_SIZE)[1]>>
       /\ requireConfirmation' # requireConfirmation =>
             UNCHANGED <<gens, sends, status, logs, lastReport, timers>>]_vars

\* C18 witness: the checkbox was cleared while the first run, started with it
\* set, was generating; the run has stopped in REVIEWING all the same.
C18_Witness ==
    /\ ~requireConfirmation
    /\ status = "REVIEWING" /\ statusTrace = <<"REVIEWING">>
    /\ gens = EmptyBag /\ sends = EmptyBag
    /\ Len(logs) = 4
    /\ logs[4].message = <<"Paused for manual review. Please approve to send.">>

\* the last auto-fired run was fired for the day of the clock reading t
LastFiredOn(t) ==
    Len(FiredKeys) >= 1 /\ FiredKeys[Len(FiredKeys)] = toLocaleDateString(t)

\* C19: a firing tick stores its day in the trigger record whether the run
\* starts generating or fails at once; no other step, and so neither a failed
\* generation nor the reversion to WAITING, changes the record; and a tick on
\* the day of the last auto-fired run fires nothing, even at 16:30 with the
\* status back to WAITING.
C19_FailedRunConsumesDay ==
    [][/\ (Ticked' /\ lastEvent'.fired) =>
             /\ lastRunDateRef' = toLocaleDateString(now')
             /\ status' \in {"GENERATING", "ERROR"}
       /\ ~(Ticked' /\ lastEvent'.fired) => lastRunDateRef' = lastRunDateRef
       /\ (Ticked' /\ LastFiredOn(now')) =>
             /\ ~lastEvent'.fired
             /\ UNCHANGED <<status, logs, gens, timers>>]_vars

\* C19 witness: the run fired this Friday has failed, its reset timer has
\* brought the status back to WAITING, and a tick at 16:30 of the same day,
\* auto mode on, has not fired.
C19_Witness ==
    /\ Ticked /\ ~lastEvent.fired
    /\ LastFiredOn(now) /\ Len(FiredKeys) = 1
    /\ isFriday(now) /\ isTimeWindow(now) /\ autoMode
    /\ status = "WAITING" /\ timers = <<>> /\ gens = EmptyBag
    /\ logs[Len(logs)].type = "error"

\* sendToWeCom builds no empty chunk, and no chunk at all for the empty
\* content, on every content of at most MaxLen characters and on the reports,
\* at the chunk sizes 1..MaxM and CHUNK_SIZE
NoEmptyChunkBuilt ==
    \A c \in Strings(MaxLen) \cup Reports, m \in (1..MaxM) \cup {CHUNK_SIZE} :
        LET chunks == SplitIntoChunks(c, m)
        IN  /\ \A k \in 1..Len(chunks) : chunks[k] # <<>>
            /\ c = <<>> => chunks = <<>>

\* C20: no chunk built is empty and the empty content gives no chunk; every
\* delivery in flight has at least one chunk and none of them empty, every
\* chunk posted is non-empty, and a delivery of a report without chunks posts
\* nothing, awaits nothing and completes in the step that entered it.
C20_NoEmptyChunk ==
    [][/\ NoEmptyChunkBuilt
       /\ \A s \in BagToSet(sends') :
             /\ s.chunks # <<>>
             /\ \A k \in 1..Len(s.chunks) : s.chunks[k] # <<>>
       /\ \A k \in 1..Len(posted') : posted'[k] # <<>>
       /\ (DeliveryStarted /\ SplitIntoChunks(lastReport', CHUNK_SIZE) = <<>>) =>
             /\ statusTrace' = <<"SENDING", "COMPLETED">>
             /\ status' = "COMPLETED"
             /\ posted' = <<>> /\ sends' = sends
             /\ logs'[Len(logs') - 1] =
                   LogEntry(<<"Successfully pushed to Enterprise WeChat.">>, "success")]_vars

\* C20 witness: Approve & Send clicked on an empty report: the status is
\* COMPLETED, nothing was posted and no delivery is in flight.
C20_Witness ==
    /\ lastEvent.kind = "approve" /\ lastReport = <<>>
    /\ status = "COMPLETED" /\ statusTrace = <<"SENDING", "COMPLETED">>
    /\ posted = <<>> /\ sends = EmptyBag

====
